---- MODULE Spec2Model ----
(***************************************************************************)
(* Brand interaction visualization tool (visualizations.py and its two     *)
(* exporters).  The record table df is loaded once; create_color_map       *)
(* assigns the brand colors; the __main__ block of visualizations.py runs  *)
(* the six chart builders in sequence inside one try block.                *)
(*                                                                         *)
(* Spec is a run of visualizations.py on a loaded table.  SpecExport is a  *)
(* run of any of the three scripts from the reading of data.csv on: both   *)
(* exporters exec visualizations.py with __name__ == '__main__', so its    *)
(* __main__ block runs before the exporter's own builder calls; the        *)
(* written dashboard is then opened and driven by clicks and key presses.  *)
(* SpecDirect calls the builders of the loaded module in any order.        *)
(*                                                                         *)
(* Strings are compared by Python with <; the model orders brand and topic *)
(* names by their position in an alphabetically sorted universe.  NaN, the *)
(* value pandas puts in a pivot cell that has no record, is the empty      *)
(* tuple, and a number v held by a cell is the one-element tuple <<v>>.    *)
(* Kyocera_Share is a float in the source; the model keeps it as the exact *)
(* fraction num/den.                                                       *)
(***************************************************************************)
EXTENDS Integers, Sequences, FiniteSets, TLC

\* ------------------------------------------------------------------------
\* Bounds of the input tables
\* ------------------------------------------------------------------------
MaxRows == 2

MaxInteractions == 2

MaxCalls == 3

\* ------------------------------------------------------------------------
\* Program constants
\* ------------------------------------------------------------------------
KYOCERA_PRIMARY == "#E4032E"

BRAND_COLORS ==
    << "#3498DB", "#2ECC71", "#E67E22", "#9B59B6", "#1ABC9C", "#34495E",
       "#16A085", "#8E44AD", "#C0392B", "#D35400", "#7F8C8D" >>

FocusBrand == "Kyocera"

TopN == 6

\* ------------------------------------------------------------------------
\* Names and their alphabetical order (Python's < on str)
\* ------------------------------------------------------------------------
BrandUniverse ==
    << "Brother", "Canon", "Dell", "Epson", "HP", "Konica", "Kyocera",
       "Lexmark", "Oki", "Ricoh", "Sharp", "Toshiba", "Xerox", "Zebra" >>

TopicUniverse == << "T1", "T2" >>

Range(s) == { s[i] : i \in 1..Len(s) }

BrandRank(b) == CHOOSE i \in 1..Len(BrandUniverse) : BrandUniverse[i] = b

TopicRank(t) == CHOOSE i \in 1..Len(TopicUniverse) : TopicUniverse[i] = t

Topics == Range(TopicUniverse)

\* ------------------------------------------------------------------------
\* Sequence helpers
\* ------------------------------------------------------------------------
Front(s) == SubSeq(s, 1, Len(s) - 1)

Last(s) == s[Len(s)]

Contains(s, x) == \E i \in 1..Len(s) : s[i] = x

\* list.index(x) / enumerate position, 0-based as in the source
IndexOf(s, x) == (CHOOSE i \in 1..Len(s) : s[i] = x) - 1

\* pandas Series.unique(): the distinct values in order of first appearance
RECURSIVE Unique(_)
Unique(s) ==
    IF s = << >> THEN << >>
    ELSE LET u == Unique(Front(s))
         IN  IF Contains(u, Last(s)) THEN u ELSE Append(u, Last(s))

Column(table, col) == [ i \in 1..Len(table) |-> table[i][col] ]

\* Series.sum() over a list of numbers
RECURSIVE SeqSum(_)
SeqSum(s) == IF s = << >> THEN 0 ELSE s[1] + SeqSum(Tail(s))

\* lexicographic < on tuples of integers (Python tuple comparison)
RECURSIVE KeyLess(_, _)
KeyLess(a, b) ==
    IF a = << >> \/ b = << >> THEN a = << >> /\ b # << >>
    ELSE IF a[1] # b[1] THEN a[1] < b[1]
    ELSE KeyLess(Tail(a), Tail(b))

\* Python sorted(s, key=...): stable, ascending by key; key is a function
\* from the elements to tuples of integers
RECURSIVE SortedInsert(_, _, _)
SortedInsert(done, x, key) ==
    IF done = << >> THEN << x >>
    ELSE IF KeyLess(key[x], key[Head(done)]) THEN << x >> \o done
    ELSE << Head(done) >> \o SortedInsert(Tail(done), x, key)

RECURSIVE sorted(_, _)
sorted(s, key) ==
    IF s = << >> THEN << >>
    ELSE SortedInsert(sorted(Front(s), key), Last(s), key)

\* ------------------------------------------------------------------------
\* Input tables (the contents of data.csv)
\* ------------------------------------------------------------------------
Row(b, t, i) ==
    [ Brand |-> b, Topic |-> t, Interactions |-> i,
      Estimated_Reach |-> 10 * i, Results |-> i, Comments |-> 0 ]

SmallBrands == { "Kyocera", "Canon" }

\* (Interactions, Estimated_Reach) of a row: reach in step with the
\* interactions, or reach without any interaction
SmallMetrics ==
    { << i, 10 * i >> : i \in 0..MaxInteractions } \cup { << 0, 10 >> }

SmallRows ==
    { [ Brand |-> b, Topic |-> t, Interactions |-> m[1],
        Estimated_Reach |-> m[2], Results |-> 1, Comments |-> 0 ] :
        b \in SmallBrands, t \in Topics, m \in SmallMetrics }

\* any rows in any order, duplicates of a (brand, topic) pair included
SmallTables == UNION { [ 1..n -> SmallRows ] : n \in 1..MaxRows }

\* a full brand x topic grid, as in the end-to-end example of the spec
DenseBrands == << "Kyocera", "Canon", "Ricoh" >>

DenseCells ==
    [ n \in 1..(Len(DenseBrands) * Len(TopicUniverse)) |->
        << DenseBrands[((n - 1) \div Len(TopicUniverse)) + 1],
           TopicUniverse[((n - 1) % Len(TopicUniverse)) + 1] >> ]

DenseTables ==
    { [ n \in DOMAIN DenseCells |-> Row(DenseCells[n][1], DenseCells[n][2], f[n]) ] :
        f \in [ DOMAIN DenseCells -> 0..MaxInteractions ] }

\* one row per brand, more brands than the top-N size, with and without the
\* focus brand; the first two brands are always ahead of the others
WideBrands ==
    << "Brother", "Xerox", "Canon", "Epson", "Kyocera", "Lexmark", "Ricoh" >>

WideTables ==
    LET full == { [ n \in DOMAIN WideBrands |->
                      Row(WideBrands[n], "T1",
                          IF n <= 2 THEN MaxInteractions + 1 ELSE f[n]) ] :
                    f \in [ 3..Len(WideBrands) -> 0..MaxInteractions ] }
    IN  full \cup { SelectSeq(t, LAMBDA r : r.Brand # FocusBrand) : t \in full }

\* one row per brand, more brands than the palette has colors, in rotated
\* orders
ManyBrandTables ==
    { [ n \in 1..k |->
          Row(BrandUniverse[((s + n - 2) % Len(BrandUniverse)) + 1], "T1", 1) ] :
        k \in 1..Len(BrandUniverse), s \in 1..Len(BrandUniverse) }

Tables == SmallTables \cup DenseTables \cup WideTables \cup ManyBrandTables

\* ------------------------------------------------------------------------
\* State
\* ------------------------------------------------------------------------
VARIABLES
    data_csv,        \* the input file: whether it exists, and its rows
    script,          \* the script that is run
    df,              \* the record table read from data.csv
    brands,          \* df['Brand'].unique()
    color_map,       \* create_color_map(brands)
    pc,              \* position of the script: the block and the call it is at
    error,           \* the exception raised last ("none" when none was)
    stdout,          \* the messages printed
    exit_status,     \* "running", or how the process ended
    fig_sankey,      \* the figure each builder returned, NoFig before
    fig_heatmap,
    fig_comparison,
    fig_breakdown,
    fig_scatter,
    fig_share,
    output,          \* the files written under output/
    png,             \* the images written under output/png/
    dashboard_html,  \* output/presentation_dashboard.html, NoDoc before
    page,            \* the dashboard page open in a browser, NoPage before
    event,           \* the DOM event handled last
    history          \* the builders called directly so far, in order

figs == << fig_sankey, fig_heatmap, fig_comparison, fig_breakdown,
           fig_scatter, fig_share >>

loaded == << data_csv, script, df, brands, color_map >>

browser == << page, event >>

vars == << loaded, pc, error, stdout, exit_status, figs, output, png,
           dashboard_html, browser, history >>

NoFig == [ built |-> FALSE ]

NoDoc == [ written |-> FALSE ]

NoPage == [ open |-> FALSE ]

NoEvent == [ type |-> "none" ]

\* ------------------------------------------------------------------------
\* The scripts and their control flow
\* ------------------------------------------------------------------------
Charts == << "sankey", "heatmap", "comparison", "breakdown", "scatter", "share" >>

html_file ==
    [ sankey     |-> "output/sankey_brand_flow.html",
      heatmap    |-> "output/heatmap_interactions.html",
      comparison |-> "output/kyocera_comparison.html",
      breakdown  |-> "output/topic_breakdown.html",
      scatter    |-> "output/scatter_reach_interactions.html",
      share      |-> "output/kyocera_market_share.html" ]

png_file ==
    [ sankey     |-> "output/png/sankey_brand_flow.png",
      heatmap    |-> "output/png/heatmap_interactions.png",
      comparison |-> "output/png/kyocera_comparison.png",
      breakdown  |-> "output/png/topic_breakdown.png",
      scatter    |-> "output/png/scatter_reach_interactions.png",
      share      |-> "output/png/kyocera_market_share.png" ]

saved_message ==
    [ sankey     |-> "Sankey diagram saved",
      heatmap    |-> "Heatmap saved",
      comparison |-> "Kyocera comparison saved",
      breakdown  |-> "Topic breakdown saved",
      scatter    |-> "Scatter plot saved",
      share      |-> "Kyocera market share saved" ]

At(block, chart) == [ block |-> block, at |-> chart ]

Exit == At("exit", "-")

IsLast(chart) == chart = Charts[Len(Charts)]

NextChart(chart) == Charts[IndexOf(Charts, chart) + 2]

\* where a script goes on after the __main__ block of visualizations.py:
\* visualizations.py ends there; the two exporters ran the block through
\* exec() and go on with their own body
after_main(scr) ==
    IF scr = "create_presentation_dashboard.py"
    THEN [ pc |-> At("dashboard", Charts[1]), exit_status |-> "running" ]
    ELSE IF scr = "generate_static_images.py"
    THEN [ pc |-> At("static", Charts[1]), exit_status |-> "running" ]
    ELSE [ pc |-> Exit, exit_status |-> "success" ]

\* the try block of __main__: the builders in sequence, the manifest after
\* the last one; any exception is caught, printed with its traceback, and
\* the block is left without re-raising
main_block(scr, chart, e) ==
    IF e # "none"
    THEN [ print |-> { "Error generating visualizations", "traceback" } ]
         @@ after_main(scr)
    ELSE IF IsLast(chart)
    THEN [ print |-> { saved_message[chart],
                       "ALL VISUALIZATIONS GENERATED SUCCESSFULLY",
                       "Output files (interactive HTML)" } ]
         @@ after_main(scr)
    ELSE [ print |-> { saved_message[chart] },
           pc |-> At("main", NextChart(chart)), exit_status |-> "running" ]

\* a builder call swallows the exception and the script goes on
dashboard_block_swallows(chart, e) ==
    [ print       |-> IF e # "none" THEN { } ELSE { saved_message[chart] },
      pc          |-> IF IsLast(chart) THEN At("write_dashboard", "-")
                      ELSE At("dashboard", NextChart(chart)),
      exit_status |-> "running" ]

\* fig1 .. fig6 of create_presentation_dashboard.py: no try block, an
\* exception ends the process with a traceback
dashboard_block(chart, e) ==
    IF e # "none"
    THEN [ print |-> { "traceback" }, pc |-> Exit, exit_status |-> "failure" ]
    ELSE [ print       |-> { saved_message[chart] },
           pc          |-> IF IsLast(chart) THEN At("write_dashboard", "-")
                           ELSE At("dashboard", NextChart(chart)),
           exit_status |-> "running" ]

\* the except branch of generate_static_images.py: the error and the hint
\* are printed and the script ends
static_except ==
    [ print       |-> { "Error", "Make sure Chrome browser is installed!" },
      pc          |-> Exit,
      exit_status |-> "success" ]

\* the try block of generate_static_images.py: each builder is followed by
\* the write_image of its figure
static_block(chart, e) ==
    IF e # "none" THEN static_except
    ELSE [ print       |-> { saved_message[chart] },
           pc          |-> At("write_image", chart),
           exit_status |-> "running" ]

\* a builder called on its own, after an import of the module
direct_call(chart, e) ==
    [ print       |-> IF e # "none" THEN { } ELSE { saved_message[chart] },
      pc          |-> pc,
      exit_status |-> "running" ]

Calls(chart) ==
    \/ pc.block = "direct" /\ Len(history) < MaxCalls
    \/ pc.block \in { "main", "dashboard", "static" } /\ pc.at = chart

\* what follows the call of a builder that raised e ("none": it returned)
Returned(chart, e) ==
    LET then == IF pc.block = "main" THEN main_block(script, chart, e)
                ELSE IF pc.block = "dashboard" THEN dashboard_block(chart, e)
                ELSE IF pc.block = "static" THEN static_block(chart, e)
                ELSE direct_call(chart, e)
    IN  /\ pc' = then.pc
        /\ stdout' = stdout \cup then.print
        /\ exit_status' = then.exit_status
        /\ error' = IF e # "none" THEN e ELSE error

\* a builder that returned has written its file
Wrote(chart, e) ==
    output' = IF e = "none" THEN output \cup { html_file[chart] } ELSE output

\* the filter of the Sankey builder rebinds the global table
df_after_filters_in_place(chart) ==
    IF chart = "sankey" THEN SelectSeq(df, LAMBDA r : r.Interactions > 0) ELSE df

\* the table a builder leaves behind: every builder works on a filtered copy
\* (df[...].copy()) or on a derived frame (pivot, groupby) and never assigns
\* to df or to one of its columns
df_after(chart) == df

\* the columns of the loaded table
Columns == IF df = << >> THEN { } ELSE DOMAIN df[1]

\* df[col] on a column the table does not have raises KeyError
KeyError(needed) == IF needed \subseteq Columns THEN "none" ELSE "KeyError"

\* ------------------------------------------------------------------------
\* Color assignment
\* ------------------------------------------------------------------------
RECURSIVE AssignColors(_, _, _)
AssignColors(other_brands, i, cm) ==
    IF i > Len(other_brands) THEN cm
    ELSE AssignColors(other_brands, i + 1,
            [ b \in DOMAIN cm \cup { other_brands[i] } |->
                IF b = other_brands[i]
                THEN BRAND_COLORS[((i - 1) % Len(BRAND_COLORS)) + 1]
                ELSE cm[b] ])

\* the Kyocera entry is not filtered out of the enumeration
create_color_map_unfiltered(bs) ==
    AssignColors(bs, 1, [ b \in { FocusBrand } |-> KYOCERA_PRIMARY ])

create_color_map(bs) ==
    LET other_brands == SelectSeq(bs, LAMBDA b : b # FocusBrand)
    IN  AssignColors(other_brands, 1,
                     [ b \in { FocusBrand } |-> KYOCERA_PRIMARY ])

\* ------------------------------------------------------------------------
\* Aggregates shared by the builders
\* ------------------------------------------------------------------------
RowsWhere(table, col, v) == SelectSeq(table, LAMBDA r : r[col] = v)

\* df.groupby(col)[metric].sum(): the index is the sorted distinct keys
GroupKeys(table, col) ==
    sorted(Unique(Column(table, col)),
           [ k \in Range(Column(table, col)) |->
               << IF col = "Brand" THEN BrandRank(k) ELSE TopicRank(k) >> ])

GroupSum(table, col, metric) ==
    [ k \in Range(Column(table, col)) |->
        SeqSum(Column(RowsWhere(table, col, k), metric)) ]

\* ------------------------------------------------------------------------
\* 1. Sankey diagram
\* ------------------------------------------------------------------------
\* >= in place of >
df_sankey_keeps_zero == SelectSeq(df, LAMBDA r : r.Interactions >= 0)

df_sankey == SelectSeq(df, LAMBDA r : r.Interactions > 0)

sankey_topics(rows) ==
    sorted(Unique(Column(rows, "Topic")),
           [ t \in Range(Column(rows, "Topic")) |-> << TopicRank(t) >> ])

brands_list(rows) ==
    sorted(Unique(Column(rows, "Brand")),
           [ b \in Range(Column(rows, "Brand")) |->
               << IF b # FocusBrand THEN 1 ELSE 0,
                  0 - SeqSum(Column(RowsWhere(rows, "Brand", b), "Interactions")) >> ])

node_labels(topics, blist) ==
    [ i \in 1..Len(topics) |-> [ icon |-> "bar_chart", text |-> topics[i] ] ]
    \o
    [ i \in 1..Len(blist) |->
        [ icon |-> IF blist[i] = FocusBrand THEN "red_circle" ELSE "office",
          text |-> blist[i] ] ]

\* enumerate counting from 1
topic_indices_one_based(topics) ==
    [ t \in Range(topics) |-> IndexOf(topics, t) + 1 ]

topic_indices(topics) == [ t \in Range(topics) |-> IndexOf(topics, t) ]

\* the offset by the number of topic nodes is forgotten
brand_indices_no_offset(topics, blist) ==
    [ b \in Range(blist) |-> IndexOf(blist, b) ]

brand_indices(topics, blist) ==
    [ b \in Range(blist) |-> IndexOf(blist, b) + Len(topics) ]

node_customdata(rows, topics, blist) ==
    [ i \in 1..Len(topics) |->
        SeqSum(Column(RowsWhere(rows, "Topic", topics[i]), "Interactions")) ]
    \o
    [ i \in 1..Len(blist) |->
        SeqSum(Column(RowsWhere(rows, "Brand", blist[i]), "Interactions")) ]

sankey_figure ==
    LET rows   == df_sankey
        topics == sankey_topics(rows)
        blist  == brands_list(rows)
        ti     == topic_indices(topics)
        bi     == brand_indices(topics, blist)
    IN  [ built      |-> TRUE,
          label      |-> node_labels(topics, blist),
          customdata |-> node_customdata(rows, topics, blist),
          source     |-> [ i \in 1..Len(rows) |-> ti[rows[i].Topic] ],
          target     |-> [ i \in 1..Len(rows) |-> bi[rows[i].Brand] ],
          value      |-> [ i \in 1..Len(rows) |-> rows[i].Interactions ] ]

sankey_raises == KeyError({ "Brand", "Topic", "Interactions" })

create_sankey_diagram ==
    /\ Calls("sankey")
    /\ LET e == sankey_raises
       IN  /\ fig_sankey' = IF e = "none" THEN sankey_figure ELSE fig_sankey
           /\ Wrote("sankey", e)
           /\ Returned("sankey", e)
    /\ df' = df_after("sankey")
    /\ history' = IF pc.block = "direct" THEN Append(history, "sankey")
                  ELSE history
    /\ UNCHANGED << data_csv, script, brands, color_map,
                    fig_heatmap, fig_comparison, fig_breakdown, fig_scatter, fig_share,
                    png, dashboard_html, browser >>

\* ------------------------------------------------------------------------
\* 2. Heatmap
\* ------------------------------------------------------------------------
NaN == << >>

IsNaN(c) == c = NaN

\* DataFrame.pivot raises ValueError("Index contains duplicate entries,
\* cannot reshape") when two rows share the (index, columns) pair
HasDuplicateEntries(table) ==
    \E i, j \in 1..Len(table) :
        i < j /\ table[i].Brand = table[j].Brand /\ table[i].Topic = table[j].Topic

\* the cell is looked up by brand alone
pivot_ignores_topic(table, metric) ==
    [ index   |-> GroupKeys(table, "Brand"),
      columns |-> GroupKeys(table, "Topic"),
      cell    |-> [ b \in Range(Column(table, "Brand")) |->
                    [ t \in Range(Column(table, "Topic")) |->
                        << SelectSeq(table, LAMBDA r : r.Brand = b)[1][metric] >> ] ] ]

\* df.pivot(index='Brand', columns='Topic', values=metric): sorted index and
\* columns; the cell of a pair without a record is NaN
pivot(table, metric) ==
    [ index   |-> GroupKeys(table, "Brand"),
      columns |-> GroupKeys(table, "Topic"),
      cell    |-> [ b \in Range(Column(table, "Brand")) |->
                    [ t \in Range(Column(table, "Topic")) |->
                        LET hit == SelectSeq(table,
                                     LAMBDA r : r.Brand = b /\ r.Topic = t)
                        IN  IF hit = << >> THEN NaN ELSE << hit[1][metric] >> ] ] ]

\* DataFrame.sum(axis=1): NaN cells are skipped (skipna=True)
RECURSIVE PandasSum(_)
PandasSum(cells) ==
    IF cells = << >> THEN 0
    ELSE (IF IsNaN(cells[1]) THEN 0 ELSE cells[1][1]) + PandasSum(Tail(cells))

RowCells(pv, b) == [ j \in 1..Len(pv.columns) |-> pv.cell[b][pv.columns[j]] ]

\* sort_values('Total', ascending=False), then the Kyocera row moved on top
heatmap_index(pv) ==
    LET by_total == sorted(pv.index,
                           [ b \in Range(pv.index) |-> << 0 - PandasSum(RowCells(pv, b)) >> ])
    IN  IF Contains(by_total, FocusBrand)
        THEN << FocusBrand >> \o SelectSeq(by_total, LAMBDA b : b # FocusBrand)
        ELSE by_total

heatmap_figure ==
    LET pivot_interactions == pivot(df, "Interactions")
        pivot_reach        == pivot(df, "Estimated_Reach")
        index              == heatmap_index(pivot_interactions)
        columns            == pivot_interactions.columns
    IN  [ built |-> TRUE,
          x     |-> columns,
          y     |-> index,
          z     |-> [ i \in 1..Len(index) |-> [ j \in 1..Len(columns) |->
                        pivot_interactions.cell[index[i]][columns[j]] ] ],
          reach |-> [ i \in 1..Len(index) |-> [ j \in 1..Len(columns) |->
                        pivot_reach.cell[index[i]][columns[j]] ] ] ]

\* pivot of Interactions first, then pivot of Estimated_Reach
heatmap_raises ==
    IF KeyError({ "Brand", "Topic", "Interactions" }) # "none" THEN "KeyError"
    ELSE IF HasDuplicateEntries(df) THEN "ValueError"
    ELSE KeyError({ "Estimated_Reach" })

create_heatmap ==
    /\ Calls("heatmap")
    /\ LET e == heatmap_raises
       IN  /\ fig_heatmap' = IF e = "none" THEN heatmap_figure ELSE fig_heatmap
           /\ Wrote("heatmap", e)
           /\ Returned("heatmap", e)
    /\ df' = df_after("heatmap")
    /\ history' = IF pc.block = "direct" THEN Append(history, "heatmap")
                  ELSE history
    /\ UNCHANGED << data_csv, script, brands, color_map,
                    fig_sankey, fig_comparison, fig_breakdown, fig_scatter, fig_share,
                    png, dashboard_html, browser >>

\* ------------------------------------------------------------------------
\* 3. Kyocera comparison
\* ------------------------------------------------------------------------
\* groupby('Brand').agg(sum).reset_index().sort_values('Interactions')
brand_totals ==
    LET keys   == GroupKeys(df, "Brand")
        inter  == GroupSum(df, "Brand", "Interactions")
        order  == sorted(keys, [ b \in Range(keys) |-> << inter[b] >> ])
    IN  [ i \in 1..Len(order) |->
            [ Brand           |-> order[i],
              Interactions    |-> inter[order[i]],
              Estimated_Reach |-> GroupSum(df, "Brand", "Estimated_Reach")[order[i]],
              Results         |-> GroupSum(df, "Brand", "Results")[order[i]],
              Comments        |-> GroupSum(df, "Brand", "Comments")[order[i]] ] ]

comparison_figure ==
    LET totals == brand_totals
    IN  [ built  |-> TRUE,
          bars   |-> totals,
          colors |-> [ i \in 1..Len(totals) |->
                        IF totals[i].Brand = FocusBrand
                        THEN KYOCERA_PRIMARY ELSE "#95A5A6" ] ]

comparison_raises ==
    KeyError({ "Brand", "Interactions", "Estimated_Reach", "Results", "Comments" })

create_kyocera_comparison ==
    /\ Calls("comparison")
    /\ LET e == comparison_raises
       IN  /\ fig_comparison' = IF e = "none" THEN comparison_figure ELSE fig_comparison
           /\ Wrote("comparison", e)
           /\ Returned("comparison", e)
    /\ df' = df_after("comparison")
    /\ history' = IF pc.block = "direct" THEN Append(history, "comparison")
                  ELSE history
    /\ UNCHANGED << data_csv, script, brands, color_map,
                    fig_sankey, fig_heatmap, fig_breakdown, fig_scatter, fig_share,
                    png, dashboard_html, browser >>

\* ------------------------------------------------------------------------
\* 4. Topic breakdown
\* ------------------------------------------------------------------------
Take(s, n) == SubSeq(s, 1, IF Len(s) < n THEN Len(s) ELSE n)

\* Series.nlargest(n): descending by value, ties in the order of the series
\* (keep='first'), at most n entries
nlargest(keys, value, n) ==
    Take(sorted(keys, [ k \in Range(keys) |-> << 0 - value[k] >> ]), n)

\* the ranked list is not cut to make room
ensure_kyocera_no_cut(ranked) ==
    IF ~Contains(ranked, FocusBrand)
    THEN << FocusBrand >> \o ranked
    ELSE ranked

\* the first-ranked brand is replaced, not the last
ensure_kyocera_drops_first(ranked) ==
    IF ~Contains(ranked, FocusBrand)
    THEN << FocusBrand >> \o Tail(ranked)
    ELSE ranked

\* the six brands of the chart, Kyocera forced in
ensure_kyocera(ranked) ==
    IF ~Contains(ranked, FocusBrand)
    THEN << FocusBrand >> \o Take(ranked, TopN - 1)
    ELSE ranked

top_brands ==
    ensure_kyocera(nlargest(GroupKeys(df, "Brand"),
                            GroupSum(df, "Brand", "Interactions"), TopN))

breakdown_figure ==
    LET top         == top_brands
        df_filtered == SelectSeq(df, LAMBDA r : Contains(top, r.Brand))
    IN  [ built      |-> TRUE,
          top_brands |-> top,
          traces     |-> [ i \in 1..Len(top) |->
                LET brand_data == RowsWhere(df_filtered, "Brand", top[i])
                IN  [ name  |-> top[i],
                      x     |-> Column(brand_data, "Topic"),
                      y     |-> Column(brand_data, "Interactions"),
                      color |-> IF top[i] = FocusBrand THEN KYOCERA_PRIMARY
                                ELSE IF top[i] \in DOMAIN color_map
                                     THEN color_map[top[i]] ELSE "gray" ] ] ]

breakdown_raises == KeyError({ "Brand", "Topic", "Interactions" })

create_topic_breakdown ==
    /\ Calls("breakdown")
    /\ LET e == breakdown_raises
       IN  /\ fig_breakdown' = IF e = "none" THEN breakdown_figure ELSE fig_breakdown
           /\ Wrote("breakdown", e)
           /\ Returned("breakdown", e)
    /\ df' = df_after("breakdown")
    /\ history' = IF pc.block = "direct" THEN Append(history, "breakdown")
                  ELSE history
    /\ UNCHANGED << data_csv, script, brands, color_map,
                    fig_sankey, fig_heatmap, fig_comparison, fig_scatter, fig_share,
                    png, dashboard_html, browser >>

\* ------------------------------------------------------------------------
\* 5. Scatter plot
\* ------------------------------------------------------------------------
df_scatter ==
    SelectSeq(df, LAMBDA r : r.Interactions > 0 \/ r.Estimated_Reach > 0)

scatter_figure ==
    LET rows == df_scatter
    IN  [ built  |-> TRUE,
          points |-> [ i \in 1..Len(rows) |->
                [ Brand |-> rows[i].Brand,
                  Topic |-> rows[i].Topic,
                  x     |-> rows[i].Interactions,
                  y     |-> rows[i].Estimated_Reach,
                  Size  |-> rows[i].Results * 2 + 5,
                  color |-> color_map[rows[i].Brand] ] ] ]

\* px.scatter raises ValueError for a hover_data column the frame lacks
scatter_raises ==
    IF KeyError({ "Brand", "Interactions", "Estimated_Reach", "Results" }) # "none"
    THEN "KeyError"
    ELSE IF KeyError({ "Topic", "Comments" }) # "none" THEN "ValueError"
    ELSE "none"

create_scatter_plot ==
    /\ Calls("scatter")
    /\ LET e == scatter_raises
       IN  /\ fig_scatter' = IF e = "none" THEN scatter_figure ELSE fig_scatter
           /\ Wrote("scatter", e)
           /\ Returned("scatter", e)
    /\ df' = df_after("scatter")
    /\ history' = IF pc.block = "direct" THEN Append(history, "scatter")
                  ELSE history
    /\ UNCHANGED << data_csv, script, brands, color_map,
                    fig_sankey, fig_heatmap, fig_comparison, fig_breakdown, fig_share,
                    png, dashboard_html, browser >>

\* ------------------------------------------------------------------------
\* 6. Kyocera market share
\* ------------------------------------------------------------------------
topic_totals == GroupSum(df, "Topic", "Interactions")

kyocera_data == RowsWhere(df, "Brand", FocusBrand)

\* kyocera_data.loc[topic, 'Interactions'] is a Series, not a number, when
\* Kyocera has several rows for the topic; formatting it with :.1f raises
\* TypeError
KyoceraValIsSeries ==
    \E t \in Topics : Len(RowsWhere(kyocera_data, "Topic", t)) > 1

\* the guard on total is missing
share_of_unguarded(kyocera_val, total) ==
    [ num |-> kyocera_val * 100, den |-> total ]

\* share = (kyocera_val / total * 100) if total > 0 else 0, as num/den
share_of(kyocera_val, total) ==
    IF total > 0 THEN [ num |-> kyocera_val * 100, den |-> total ]
    ELSE [ num |-> 0, den |-> 1 ]

market_share ==
    LET topics == Unique(Column(df, "Topic"))
        totals == topic_totals
        kdata  == kyocera_data
    IN  [ i \in 1..Len(topics) |->
            LET total       == totals[topics[i]]
                hit         == RowsWhere(kdata, "Topic", topics[i])
                kyocera_val == IF hit # << >> THEN hit[1].Interactions ELSE 0
            IN  [ Topic                |-> topics[i],
                  Kyocera_Share        |-> share_of(kyocera_val, total),
                  Kyocera_Interactions |-> kyocera_val,
                  Total_Interactions   |-> total ] ]

\* the product of the denominators of all shares but the one at position skip
RECURSIVE DenProduct(_, _)
DenProduct(ms, skip) ==
    IF ms = << >> THEN 1
    ELSE (IF Len(ms) = skip THEN 1 ELSE Last(ms).Kyocera_Share.den)
             * DenProduct(Front(ms), skip)

\* DataFrame(market_share).sort_values('Kyocera_Share', ascending=True); the
\* fractions are compared over their common denominator
df_share ==
    LET ms    == market_share
        order == sorted([ i \in 1..Len(ms) |-> i ],
                        [ i \in 1..Len(ms) |->
                            << ms[i].Kyocera_Share.num * DenProduct(ms, i) >> ])
    IN  [ i \in 1..Len(order) |-> ms[order[i]] ]

share_figure == [ built |-> TRUE, bars |-> df_share ]

share_raises ==
    IF KeyError({ "Brand", "Topic", "Interactions" }) # "none" THEN "KeyError"
    ELSE IF KyoceraValIsSeries THEN "TypeError"
    ELSE "none"

create_kyocera_market_share ==
    /\ Calls("share")
    /\ LET e == share_raises
       IN  /\ fig_share' = IF e = "none" THEN share_figure ELSE fig_share
           /\ Wrote("share", e)
           /\ Returned("share", e)
    /\ df' = df_after("share")
    /\ history' = IF pc.block = "direct" THEN Append(history, "share")
                  ELSE history
    /\ UNCHANGED << data_csv, script, brands, color_map,
                    fig_sankey, fig_heatmap, fig_comparison, fig_breakdown, fig_scatter,
                    png, dashboard_html, browser >>

\* ------------------------------------------------------------------------
\* Module body of visualizations.py: the data load
\* ------------------------------------------------------------------------
AllColumns ==
    { "Brand", "Topic", "Interactions", "Estimated_Reach", "Results", "Comments" }

\* the exception of the module body: read_csv on a missing file, df['Brand']
\* on a table without that column
load_raises ==
    IF ~data_csv.exists THEN "FileNotFoundError"
    ELSE IF data_csv.rows # << >> /\ "Brand" \notin DOMAIN data_csv.rows[1]
    THEN "KeyError"
    ELSE "none"

\* the module body has no try block: an exception ends the process
load_data ==
    /\ pc.block = "load"
    /\ LET e == load_raises
       IN  /\ error' = e
           /\ df' = IF data_csv.exists THEN data_csv.rows ELSE df
           /\ brands' = IF e = "none" THEN Unique(Column(data_csv.rows, "Brand"))
                        ELSE brands
           /\ color_map' = IF e = "none" THEN create_color_map(brands')
                           ELSE color_map
           /\ pc' = IF e = "none" THEN At("main", Charts[1]) ELSE Exit
           /\ stdout' = IF e = "none" THEN stdout ELSE stdout \cup { "traceback" }
           /\ exit_status' = IF e = "none" THEN "running" ELSE "failure"
    /\ UNCHANGED << data_csv, script, figs, output, png, dashboard_html,
                    browser, history >>

\* ------------------------------------------------------------------------
\* generate_static_images.py
\* ------------------------------------------------------------------------
png_saved_message ==
    [ sankey     |-> "Sankey PNG saved",
      heatmap    |-> "Heatmap PNG saved",
      comparison |-> "Kyocera comparison PNG saved",
      breakdown  |-> "Topic breakdown PNG saved",
      scatter    |-> "Scatter plot PNG saved",
      share      |-> "Market share PNG saved" ]

\* the except branch goes on with the next chart
after_write_image_continues(chart, ok) ==
    [ print       |-> IF ok THEN { png_saved_message[chart] }
                      ELSE { "Error", "Make sure Chrome browser is installed!" },
      pc          |-> IF IsLast(chart) THEN Exit ELSE At("static", NextChart(chart)),
      exit_status |-> IF IsLast(chart) THEN "success" ELSE "running" ]

\* what follows fig.write_image(...) inside the try block
after_write_image(chart, ok) ==
    IF ~ok THEN static_except
    ELSE IF IsLast(chart)
    THEN [ print       |-> { png_saved_message[chart], "ALL PNG IMAGES GENERATED" },
           pc          |-> Exit,
           exit_status |-> "success" ]
    ELSE [ print       |-> { png_saved_message[chart] },
           pc          |-> At("static", NextChart(chart)),
           exit_status |-> "running" ]

\* fig.write_image raises when the rendering backend (kaleido, Chrome) is
\* not available; whether it is, is the environment's choice
write_image ==
    /\ pc.block = "write_image"
    /\ \E ok \in BOOLEAN :
          LET then == after_write_image(pc.at, ok)
          IN  /\ png' = IF ok THEN png \cup { png_file[pc.at] } ELSE png
              /\ error' = IF ok THEN error ELSE "RenderingError"
              /\ pc' = then.pc
              /\ stdout' = stdout \cup then.print
              /\ exit_status' = then.exit_status
    /\ UNCHANGED << loaded, figs, output, dashboard_html, browser, history >>

\* ------------------------------------------------------------------------
\* create_presentation_dashboard.py
\* ------------------------------------------------------------------------
\* html_content: the six tab buttons and panels, the first of each with
\* class "active", and the six serialized figures
html_content ==
    [ written        |-> TRUE,
      tabs_active    |-> { 0 },
      contents_active |-> { 0 },
      charts         |-> << fig_sankey, fig_heatmap, fig_comparison,
                            fig_breakdown, fig_scatter, fig_share >> ]

write_dashboard ==
    /\ pc.block = "write_dashboard"
    /\ dashboard_html' = html_content
    /\ stdout' = stdout \cup { "PRESENTATION DASHBOARD CREATED" }
    /\ pc' = Exit
    /\ exit_status' = "success"
    /\ UNCHANGED << loaded, error, figs, output, png, browser, history >>

\* the document is opened in a browser: Plotly.newPlot for every chart
open_dashboard ==
    /\ dashboard_html.written
    /\ ~page.open
    /\ page' = [ open     |-> TRUE,
                 tabs     |-> dashboard_html.tabs_active,
                 contents |-> dashboard_html.contents_active,
                 resized  |-> FALSE ]
    /\ UNCHANGED << loaded, pc, error, stdout, exit_status, figs, output, png,
                    dashboard_html, event, history >>

\* the selected tab is added to the active ones, none is removed
showTab_keeps_active(pg, index) ==
    [ pg EXCEPT !.tabs = pg.tabs \cup { index }, !.contents = { index },
                !.resized = TRUE ]

\* function showTab(index)
showTab(pg, index) ==
    [ pg EXCEPT !.tabs = { index }, !.contents = { index }, !.resized = TRUE ]

click_tab ==
    /\ page.open
    /\ \E index \in 0..(Len(Charts) - 1) :
          /\ page' = showTab(page, index)
          /\ event' = [ type |-> "click", index |-> index ]
    /\ UNCHANGED << loaded, pc, error, stdout, exit_status, figs, output, png,
                    dashboard_html, history >>

\* Array.from(querySelectorAll('.tab')).indexOf(querySelector('.tab.active')):
\* the first active tab, -1 when there is none
currentIndex(pg) ==
    IF pg.tabs = { } THEN 0 - 1
    ELSE CHOOSE i \in pg.tabs : \A j \in pg.tabs : i <= j

\* ArrowRight on the last tab goes round to the first, ArrowLeft on the first
\* to the last
keydown_target_wraps(current, key) ==
    IF key = "ArrowRight" THEN (current + 1) % 6
    ELSE IF key = "ArrowLeft" THEN (current + 5) % 6
    ELSE 0 - 1

\* the tab the keydown handler shows, -1 when it shows none
keydown_target(current, key) ==
    IF key = "ArrowRight" /\ current < 5 THEN current + 1
    ELSE IF key = "ArrowLeft" /\ current > 0 THEN current - 1
    ELSE 0 - 1

Keys == { "ArrowRight", "ArrowLeft", "Enter" }

keydown ==
    /\ page.open
    /\ \E key \in Keys :
          LET current == currentIndex(page)
              target  == keydown_target(current, key)
          IN  /\ page' = IF target >= 0 THEN showTab(page, target) ELSE page
              /\ event' = [ type |-> "keydown", key |-> key,
                            currentIndex |-> current ]
    /\ UNCHANGED << loaded, pc, error, stdout, exit_status, figs, output, png,
                    dashboard_html, history >>

\* ------------------------------------------------------------------------
\* Specifications
\* ------------------------------------------------------------------------
\* no exception yet, nothing printed, written or shown
Fresh ==
    /\ error = "none"
    /\ stdout = { }
    /\ exit_status = "running"
    /\ fig_sankey = NoFig
    /\ fig_heatmap = NoFig
    /\ fig_comparison = NoFig
    /\ fig_breakdown = NoFig
    /\ fig_scatter = NoFig
    /\ fig_share = NoFig
    /\ output = { }
    /\ png = { }
    /\ dashboard_html = NoDoc
    /\ page = NoPage
    /\ event = NoEvent
    /\ history = << >>

\* visualizations.py after its module body (lines 13 to 60), about to enter
\* the try block of __main__
Init ==
    /\ data_csv \in { [ exists |-> TRUE, rows |-> t ] : t \in Tables }
    /\ script = "visualizations.py"
    /\ df = data_csv.rows
    /\ brands = Unique(Column(df, "Brand"))
    /\ color_map = create_color_map(brands)
    /\ pc = At("main", Charts[1])
    /\ Fresh

Next ==
    \/ create_sankey_diagram
    \/ create_heatmap
    \/ create_kyocera_comparison
    \/ create_topic_breakdown
    \/ create_scatter_plot
    \/ create_kyocera_market_share

Spec == Init /\ [][Next]_vars

\* the rows of a table without the columns that are not in cols
Project(table, cols) ==
    [ i \in 1..Len(table) |-> [ c \in cols |-> table[i][c] ] ]

Scripts ==
    { "visualizations.py", "create_presentation_dashboard.py",
      "generate_static_images.py" }

PairTables == [ 1..2 -> SmallRows ]

DefectTables ==
    { << Row(FocusBrand, t1, 1), Row("Canon", t2, 1) >> : t1, t2 \in Topics }

\* data.csv: complete, or without one of the columns, or not there at all
ExportFiles ==
    { [ exists |-> TRUE, rows |-> t ] : t \in PairTables }
    \cup { [ exists |-> TRUE, rows |-> Project(t, AllColumns \ { c }) ] :
             t \in DefectTables, c \in AllColumns }
    \cup { [ exists |-> FALSE, rows |-> << >> ] }

\* one of the three scripts is started: nothing is loaded yet
InitExport ==
    /\ data_csv \in ExportFiles
    /\ script \in Scripts
    /\ df = << >>
    /\ brands = << >>
    /\ color_map = << >>
    /\ pc = At("load", "-")
    /\ Fresh

NextExport ==
    \/ load_data
    \/ Next
    \/ write_image
    \/ write_dashboard
    \/ open_dashboard
    \/ click_tab
    \/ keydown

SpecExport == InitExport /\ [][NextExport]_vars

\* the module is imported and the builders are called one by one, in any
\* order, an exception going back to the caller
DirectRows ==
    { [ Brand |-> b, Topic |-> t, Interactions |-> i,
        Estimated_Reach |-> 10 * i, Results |-> 1, Comments |-> 0 ] :
        b \in SmallBrands, t \in Topics, i \in { 0, 1 } }

DirectTables == [ 1..2 -> DirectRows ]

InitDirect ==
    /\ data_csv \in { [ exists |-> TRUE, rows |-> t ] : t \in DirectTables }
    /\ script = "import visualizations"
    /\ df = data_csv.rows
    /\ brands = Unique(Column(df, "Brand"))
    /\ color_map = create_color_map(brands)
    /\ pc = At("direct", "-")
    /\ Fresh

SpecDirect == InitDirect /\ [][Next]_vars


\* ------------------------------------------------------------------------
\* Reference quantities, summed over the raw record set
\* ------------------------------------------------------------------------
RECURSIVE SumOver(_, _)
SumOver(S, f) ==
    IF S = { } THEN 0
    ELSE LET x == CHOOSE y \in S : TRUE IN f[x] + SumOver(S \ { x }, f)

RecordInteractions == [ i \in DOMAIN df |-> df[i].Interactions ]

BrandsOfTable == { df[i].Brand : i \in DOMAIN df }

TopicsOfTable == { df[i].Topic : i \in DOMAIN df }

BrandTotal(b) == SumOver({ i \in DOMAIN df : df[i].Brand = b }, RecordInteractions)

TopicTotal(t) == SumOver({ i \in DOMAIN df : df[i].Topic = t }, RecordInteractions)

FocusInteractions(t) ==
    SumOver({ i \in DOMAIN df : df[i].Topic = t /\ df[i].Brand = FocusBrand },
            RecordInteractions)

HasRecord(b, t) == \E i \in DOMAIN df : df[i].Brand = b /\ df[i].Topic = t

\* c is ranked above b: more interactions, the name deciding a tie
Outranks(c, b) ==
    \/ BrandTotal(c) > BrandTotal(b)
    \/ BrandTotal(c) = BrandTotal(b) /\ BrandRank(c) < BrandRank(b)

\* the n highest-ranked brands of the table
Highest(n) ==
    { b \in BrandsOfTable :
        Cardinality({ c \in BrandsOfTable : Outranks(c, b) }) < n }

\* ------------------------------------------------------------------------
\* C1..C3: top-N brand selection of the topic breakdown
\* ------------------------------------------------------------------------
\* C1: for every table the brand list selected for the topic-breakdown chart
\* contains the focus brand and has exactly TopN (6) distinct entries whenever
\* the table holds at least 6 distinct brands; the chart has one trace per
\* brand of that list.
C1_TopBrandsContainFocus ==
    /\ Contains(top_brands, FocusBrand)
    /\ Cardinality(BrandsOfTable) >= TopN =>
         /\ Len(top_brands) = TopN
         /\ Cardinality(Range(top_brands)) = TopN
    /\ fig_breakdown.built =>
         /\ fig_breakdown.top_brands = top_brands
         /\ \A i \in 1..Len(top_brands) :
               fig_breakdown.traces[i].name = top_brands[i]

C1_Witness ==
    /\ fig_breakdown.built
    /\ Cardinality(BrandsOfTable) > TopN
    /\ FocusBrand \in BrandsOfTable
    /\ FocusBrand \notin Highest(TopN)

\* C2: when the focus brand has records but is not among the 6 highest-ranked
\* brands, the selected set is the 5 highest-ranked brands plus the focus
\* brand, and the non-focus brands of the list are in descending order of
\* total interactions.
C2_ForcedInclusionReplacesLast ==
    (FocusBrand \in BrandsOfTable /\ FocusBrand \notin Highest(TopN)) =>
        LET top == IF fig_breakdown.built THEN fig_breakdown.top_brands
                   ELSE top_brands
        IN  /\ Range(top) = Highest(TopN - 1) \cup { FocusBrand }
            /\ \A i, j \in 1..Len(top) :
                 (i < j /\ top[i] # FocusBrand /\ top[j] # FocusBrand)
                     => BrandTotal(top[i]) >= BrandTotal(top[j])

C2_Witness ==
    /\ fig_breakdown.built
    /\ FocusBrand \in BrandsOfTable
    /\ FocusBrand \notin Highest(TopN)
    /\ BrandTotal(FocusBrand) > 0
    /\ \E b \in Highest(TopN) \ Highest(TopN - 1) :
          BrandTotal(b) > BrandTotal(FocusBrand)

\* C3: when no record has the focus brand, the selected list is exactly the 6
\* highest-ranked brands (all brands when fewer than 6 exist): nothing is
\* force-included and no brand is dropped.
C3_NothingForcedWhenFocusAbsent ==
    (fig_breakdown.built /\ FocusBrand \notin BrandsOfTable) =>
        Range(fig_breakdown.top_brands) = Highest(TopN)

\* ------------------------------------------------------------------------
\* C4: focus-brand share per topic
\* ------------------------------------------------------------------------
\* C4: every topic of the table has one share bar; the share equals
\* focus_brand_interactions / topic_total * 100 when the topic total is
\* positive, is 0 when the topic total is 0 or the focus brand has no record
\* for the topic, lies in [0, 100], and is never a division by zero.
C4_ShareFormula ==
    fig_share.built =>
        LET bars == fig_share.bars
        IN  /\ { bars[i].Topic : i \in 1..Len(bars) } = TopicsOfTable
            /\ Len(bars) = Cardinality(TopicsOfTable)
            /\ \A i \in 1..Len(bars) :
                 LET t     == bars[i].Topic
                     share == bars[i].Kyocera_Share
                 IN  /\ share.den > 0
                     /\ TopicTotal(t) > 0 =>
                          share.num * TopicTotal(t)
                              = FocusInteractions(t) * 100 * share.den
                     /\ (TopicTotal(t) = 0 \/ ~HasRecord(FocusBrand, t)) =>
                          share.num = 0
                     /\ 0 <= share.num
                     /\ share.num <= 100 * share.den

C4_Witness ==
    /\ fig_share.built
    /\ \E i \in 1..Len(fig_share.bars) :
          fig_share.bars[i].Total_Interactions = 0
    /\ \E i \in 1..Len(fig_share.bars) :
          /\ 0 < fig_share.bars[i].Kyocera_Share.num
          /\ fig_share.bars[i].Kyocera_Share.num
                 < 100 * fig_share.bars[i].Kyocera_Share.den

\* ------------------------------------------------------------------------
\* C5, C6: the brand x topic matrix of the heatmap
\* ------------------------------------------------------------------------
MatrixColumn(m, j) == [ i \in 1..Len(m) |-> m[i][j] ]

\* C5: in the matrix built for the heatmap, the cells of a topic sum to that
\* topic's total from the aggregator (groupby Topic, sum of Interactions), and
\* the cells of a brand's row sum to that brand's total (groupby Brand).
C5_MatrixReconciles ==
    fig_heatmap.built =>
        /\ \A j \in 1..Len(fig_heatmap.x) :
              PandasSum(MatrixColumn(fig_heatmap.z, j))
                  = topic_totals[fig_heatmap.x[j]]
        /\ \A i \in 1..Len(fig_heatmap.y) :
              PandasSum(fig_heatmap.z[i])
                  = GroupSum(df, "Brand", "Interactions")[fig_heatmap.y[i]]
        /\ Range(fig_heatmap.x) = TopicsOfTable
        /\ Range(fig_heatmap.y) = BrandsOfTable

C5_Witness ==
    /\ fig_heatmap.built
    /\ Len(fig_heatmap.y) >= 2
    /\ Len(fig_heatmap.x) >= 2
    /\ \A j \in 1..Len(fig_heatmap.x) :
          /\ topic_totals[fig_heatmap.x[j]] > 0
          /\ \E i \in 1..Len(fig_heatmap.y) : IsNaN(fig_heatmap.z[i][j])

\* C6: a (brand, topic) combination without a record is a cell of value 0 in
\* the interactions matrix and in the reach matrix.
C6_MissingCellIsZero ==
    fig_heatmap.built =>
        \A i \in 1..Len(fig_heatmap.y) : \A j \in 1..Len(fig_heatmap.x) :
            ~HasRecord(fig_heatmap.y[i], fig_heatmap.x[j]) =>
                /\ fig_heatmap.z[i][j] = << 0 >>
                /\ fig_heatmap.reach[i][j] = << 0 >>

\* ------------------------------------------------------------------------
\* C7, C8: the color map
\* ------------------------------------------------------------------------
Swap(s, i, j) ==
    [ k \in 1..Len(s) |-> IF k = i THEN s[j] ELSE IF k = j THEN s[i] ELSE s[k] ]

\* C7: create_color_map returns the same mapping for the same set of brands
\* given in a different element order (every reordering is a chain of swaps
\* of two elements).
C7_ColorMapIgnoresOrder ==
    \A i, j \in 1..Len(brands) :
        create_color_map(Swap(brands, i, j)) = color_map

OtherBrands == SelectSeq(brands, LAMBDA b : b # FocusBrand)

\* C8: the i-th non-focus brand (counted from 0) has palette entry i mod 11,
\* so no two non-focus brands share a color while there are at most 11 of
\* them.
C8_PaletteCycles ==
    /\ Len(BRAND_COLORS) = 11
    /\ \A i \in 1..Len(OtherBrands) :
          color_map[OtherBrands[i]] = BRAND_COLORS[((i - 1) % 11) + 1]
    /\ Len(OtherBrands) <= 11 =>
          \A i, j \in 1..Len(OtherBrands) :
              i # j => color_map[OtherBrands[i]] # color_map[OtherBrands[j]]

C8_Witness ==
    /\ Len(OtherBrands) > Len(BRAND_COLORS)
    /\ FocusBrand \in Range(brands)
    /\ brands[1] # FocusBrand
    /\ color_map[OtherBrands[Len(BRAND_COLORS) + 1]] = color_map[OtherBrands[1]]

\* ------------------------------------------------------------------------
\* C9, C10: the flow chart
\* ------------------------------------------------------------------------
NodeCount == Len(fig_sankey.label)

LinkCount == Len(fig_sankey.value)

TopicNodes == { n \in 1..NodeCount : fig_sankey.label[n].icon = "bar_chart" }

BrandNodes ==
    { n \in 1..NodeCount : fig_sankey.label[n].icon \in { "red_circle", "office" } }

\* link source and target are 0-based positions in the node list
LinksFrom(n) == { k \in 1..LinkCount : fig_sankey.source[k] = n - 1 }

TopicsWithFlow == { df[i].Topic : i \in { r \in DOMAIN df : df[r].Interactions > 0 } }

BrandsWithFlow == { df[i].Brand : i \in { r \in DOMAIN df : df[r].Interactions > 0 } }

\* C9 as stated: the node set has a root node besides the topic and brand
\* nodes, and every topic has an edge from the root to its node whose weight
\* is the topic's total interactions.
C9_RootToTopicEdges ==
    fig_sankey.built =>
        \E root \in 1..NodeCount :
            /\ root \notin TopicNodes \cup BrandNodes
            /\ \A t \in TopicsOfTable :
                  \E k \in LinksFrom(root) :
                      /\ fig_sankey.label[fig_sankey.target[k] + 1].text = t
                      /\ fig_sankey.target[k] + 1 \in TopicNodes
                      /\ fig_sankey.value[k] = TopicTotal(t)

\* C9 amended: the node set has two tiers and no root: the nodes of the topics
\* that have a record with interactions > 0, followed by the nodes of the
\* brands that have one; every edge runs from a topic node to a brand node,
\* and the weights of the edges leaving a topic node sum to that topic's total
\* interactions.
C9_TwoTierTopicFlows ==
    fig_sankey.built =>
        /\ TopicNodes \cup BrandNodes = 1..NodeCount
        /\ TopicNodes = 1..Cardinality(TopicsWithFlow)
        /\ { fig_sankey.label[n].text : n \in TopicNodes } = TopicsWithFlow
        /\ { fig_sankey.label[n].text : n \in BrandNodes } = BrandsWithFlow
        /\ Cardinality(BrandNodes) = Cardinality(BrandsWithFlow)
        /\ \A k \in 1..LinkCount :
              /\ fig_sankey.source[k] + 1 \in TopicNodes
              /\ fig_sankey.target[k] + 1 \in BrandNodes
        /\ \A n \in TopicNodes :
              SumOver(LinksFrom(n), fig_sankey.value)
                  = TopicTotal(fig_sankey.label[n].text)

C9_Witness ==
    /\ fig_sankey.built
    /\ Cardinality(TopicNodes) >= 2
    /\ Cardinality(BrandNodes) >= 2
    /\ \E n \in TopicNodes : Cardinality(LinksFrom(n)) >= 2
    /\ TopicsWithFlow # TopicsOfTable \/ BrandsWithFlow # BrandsOfTable

PositiveRecords == { i \in DOMAIN df : df[i].Interactions > 0 }

\* C10: a record with interactions = 0 contributes no edge to the flow chart,
\* a record with interactions > 0 contributes exactly one topic -> brand edge
\* whose weight is its interaction count (the edges are the positive records,
\* in table order), and a zero-interaction record is a cell of value 0 in the
\* heatmap matrix.
C10_ZeroRowsNoEdgeButCell ==
    /\ fig_sankey.built =>
          /\ LinkCount = Cardinality(PositiveRecords)
          /\ \A i \in PositiveRecords :
                LET k == Cardinality({ r \in PositiveRecords : r <= i })
                IN  /\ fig_sankey.value[k] = df[i].Interactions
                    /\ fig_sankey.label[fig_sankey.source[k] + 1]
                          = [ icon |-> "bar_chart", text |-> df[i].Topic ]
                    /\ fig_sankey.label[fig_sankey.target[k] + 1].text = df[i].Brand
                    /\ fig_sankey.target[k] + 1 \in BrandNodes
    /\ fig_heatmap.built =>
          \A i \in DOMAIN df :
              df[i].Interactions = 0 =>
                  \E r \in 1..Len(fig_heatmap.y) : \E c \in 1..Len(fig_heatmap.x) :
                      /\ fig_heatmap.y[r] = df[i].Brand
                      /\ fig_heatmap.x[c] = df[i].Topic
                      /\ fig_heatmap.z[r][c] = << 0 >>

C10_Witness ==
    /\ fig_sankey.built
    /\ fig_heatmap.built
    /\ \E i, j \in DOMAIN df :
          /\ df[i].Interactions = 0
          /\ df[j].Interactions > 0
          /\ df[i].Brand = df[j].Brand
          /\ i < j

\* ------------------------------------------------------------------------
\* C19: the flow chart's links and node totals
\* ------------------------------------------------------------------------
LinksInto(n) == { k \in 1..LinkCount : fig_sankey.target[k] = n - 1 }

\* C19: in the flow chart every link's source index is the position of a
\* topic node and its target index the position of a brand node of the node
\* list, every node has at least one link, the total shown at a topic node is
\* the sum of the weights of the links leaving it and the total shown at a
\* brand node is the sum of the weights of the links entering it.
C19_LinksAndTotalsConsistent ==
    fig_sankey.built =>
        /\ Len(fig_sankey.source) = LinkCount
        /\ Len(fig_sankey.target) = LinkCount
        /\ Len(fig_sankey.customdata) = NodeCount
        /\ \A k \in 1..LinkCount :
              /\ fig_sankey.source[k] \in 0..(NodeCount - 1)
              /\ fig_sankey.target[k] \in 0..(NodeCount - 1)
              /\ fig_sankey.source[k] + 1 \in TopicNodes
              /\ fig_sankey.target[k] + 1 \in BrandNodes
        /\ \A n \in 1..NodeCount : LinksFrom(n) \cup LinksInto(n) # { }
        /\ \A n \in TopicNodes :
              fig_sankey.customdata[n] = SumOver(LinksFrom(n), fig_sankey.value)
        /\ \A n \in BrandNodes :
              fig_sankey.customdata[n] = SumOver(LinksInto(n), fig_sankey.value)

\* a chart with two topic nodes, a brand node with two links of different
\* topics, and a record without interactions left out
C19_Witness ==
    /\ fig_sankey.built
    /\ Cardinality(TopicNodes) >= 2
    /\ \E n \in BrandNodes :
          /\ Cardinality(LinksInto(n)) >= 2
          /\ \E j, k \in LinksInto(n) : fig_sankey.source[j] # fig_sankey.source[k]
    /\ LinkCount < Len(df)

\* ------------------------------------------------------------------------
\* C11, C12: the tabs of the combined dashboard
\* ------------------------------------------------------------------------
PanelIndices == 0..(Len(Charts) - 1)

\* C11: in the opened dashboard the active tab and panel indices stay within
\* 0..5; right after a key press with the active tab at index i, ArrowRight
\* has made panel i+1 the active one when i < 5 and has left panel 5 active
\* when i = 5, ArrowLeft has made panel i-1 the active one when i > 0 and has
\* left panel 0 active when i = 0 (no wrap-around).
C11_ArrowKeysClamp ==
    page.open =>
        /\ page.tabs \subseteq PanelIndices
        /\ page.contents \subseteq PanelIndices
        /\ event.type = "keydown" =>
              LET i == event.currentIndex
              IN  /\ i \in PanelIndices
                  /\ event.key = "ArrowRight" =>
                        page.contents = { IF i = 5 THEN 5 ELSE i + 1 }
                  /\ event.key = "ArrowLeft" =>
                        page.contents = { IF i = 0 THEN 0 ELSE i - 1 }

\* ArrowRight was pressed on the last panel
C11_Witness ==
    /\ page.open
    /\ event.type = "keydown"
    /\ event.key = "ArrowRight"
    /\ event.currentIndex = 5
    /\ page.contents = { 5 }

\* C12: the written document marks exactly tab 0 and panel 0 active; in the
\* opened dashboard, initially and after every click and key press, exactly
\* one tab button and exactly one content panel are active and they have the
\* same index, which is 0 before the first event.
C12_ExactlyOnePanelActive ==
    /\ dashboard_html.written =>
          dashboard_html.tabs_active = { 0 } /\ dashboard_html.contents_active = { 0 }
    /\ page.open =>
          /\ Cardinality(page.tabs) = 1
          /\ Cardinality(page.contents) = 1
          /\ page.tabs = page.contents
          /\ event.type = "none" => page.tabs = { 0 }

\* a tab other than the first was clicked, then ArrowLeft was pressed
C12_Witness ==
    /\ page.open
    /\ event.type = "keydown"
    /\ event.key = "ArrowLeft"
    /\ event.currentIndex = 3
    /\ page.tabs = { 2 }
    /\ page.resized

\* ------------------------------------------------------------------------
\* C13: the combined document
\* ------------------------------------------------------------------------
\* C13: output/presentation_dashboard.html is written only by the combined
\* exporter, only in a run in which no chart builder has failed and after all
\* six chart specifications were built, and then it holds all six of them; in
\* a run in which a builder fails the document is not written.
C13_DashboardAllOrNothing ==
    /\ dashboard_html.written =>
          /\ script = "create_presentation_dashboard.py"
          /\ error = "none"
          /\ \A i \in 1..Len(Charts) : figs[i].built
          /\ dashboard_html.charts = figs
    /\ error # "none" => dashboard_html = NoDoc

\* the combined exporter ended on the failure of the second builder, the
\* first chart being built, and wrote no document
C13_Witness ==
    /\ script = "create_presentation_dashboard.py"
    /\ exit_status = "failure"
    /\ error = "ValueError"
    /\ fig_sankey.built
    /\ ~fig_heatmap.built
    /\ dashboard_html = NoDoc

\* ------------------------------------------------------------------------
\* C14: defective input
\* ------------------------------------------------------------------------
InputDefect ==
    \/ ~data_csv.exists
    \/ data_csv.rows # << >> /\ ~(AllColumns \subseteq DOMAIN data_csv.rows[1])

\* C14 as stated: when data.csv is missing or lacks one of the columns Brand,
\* Topic, Interactions, Estimated_Reach, Results, Comments, no chart builder
\* completes and no chart artifact is written at any point of the run.
C14_DefectAbortsBeforeAnyChart ==
    InputDefect =>
        /\ \A i \in 1..Len(Charts) : ~figs[i].built
        /\ output = { }
        /\ png = { }
        /\ dashboard_html = NoDoc

\* ------------------------------------------------------------------------
\* C15: the individual artifacts
\* ------------------------------------------------------------------------
\* the exception each builder raises on the loaded table
Raises ==
    [ sankey     |-> sankey_raises,
      heatmap    |-> heatmap_raises,
      comparison |-> comparison_raises,
      breakdown  |-> breakdown_raises,
      scatter    |-> scatter_raises,
      share      |-> share_raises ]

\* C15 as stated: when a run of the individual-charts script has ended, the
\* artifact of every chart whose own builder does not fail on the table has
\* been written, whichever other builder failed.
C15_WritesAreIndependent ==
    (script = "visualizations.py" /\ pc = Exit) =>
        \A i \in 1..Len(Charts) :
            Raises[Charts[i]] = "none" => html_file[Charts[i]] \in output

\* ------------------------------------------------------------------------
\* C16: the static-image exporter
\* ------------------------------------------------------------------------
\* C16: in every step that ends with a rasterization failure recorded (the
\* failing write_image and whatever follows it), the script is at its end,
\* the error and the installation hint have been printed, and the step has
\* built no chart and has left the set of written interactive artifacts and
\* the set of written images as they were.
C16_RasterFailureStopsExport ==
    [][ error' = "RenderingError" =>
            /\ script' = "generate_static_images.py"
            /\ pc' = Exit
            /\ { "Error", "Make sure Chrome browser is installed!" } \subseteq stdout'
            /\ figs' = figs
            /\ output' = output
            /\ png' = png ]_vars

\* the third rasterization failed: two images and all interactive artifacts
\* are there, the later images are not
C16_Witness ==
    /\ script = "generate_static_images.py"
    /\ error = "RenderingError"
    /\ pc = Exit
    /\ png = { png_file["sankey"], png_file["heatmap"] }
    /\ Cardinality(output) = Len(Charts)
    /\ "ALL PNG IMAGES GENERATED" \notin stdout

\* ------------------------------------------------------------------------
\* C17: the outcome of a run
\* ------------------------------------------------------------------------
AllHtml == { html_file[Charts[i]] : i \in 1..Len(Charts) }

AllPng == { png_file[Charts[i]] : i \in 1..Len(Charts) }

\* every artifact the started script is to produce is there
AllArtifactsGenerated ==
    /\ AllHtml \subseteq output
    /\ script = "create_presentation_dashboard.py" => dashboard_html.written
    /\ script = "generate_static_images.py" => AllPng \subseteq png

\* C17 as stated: when a run of one of the three scripts has ended after an
\* exception, its outcome is failure; when it has ended with the success
\* outcome, every artifact of the run was generated.
C17_FailureExitsNonZero ==
    pc = Exit =>
        /\ error # "none" => exit_status = "failure"
        /\ exit_status = "success" => AllArtifactsGenerated

\* ------------------------------------------------------------------------
\* C18: the builders leave the loaded data alone
\* ------------------------------------------------------------------------
\* C18: after every builder invocation, in whatever order and however often
\* the six builders are invoked, the record table equals the table read from
\* data.csv and the color map equals the map made from its brands at load,
\* and a chart specification that was built before and is built again is the
\* same specification.
C18_BuildersArePure ==
    [][ /\ df' = data_csv.rows
        /\ brands' = Unique(Column(data_csv.rows, "Brand"))
        /\ color_map' = create_color_map(Unique(Column(data_csv.rows, "Brand")))
        /\ \A i \in 1..Len(Charts) :
              (figs[i].built /\ figs'[i].built) => figs'[i] = figs[i] ]_vars

\* the heatmap was built, then the Sankey chart from a table with a record
\* without interactions, then the heatmap again
C18_Witness ==
    /\ history = << "heatmap", "sankey", "heatmap" >>
    /\ fig_heatmap.built
    /\ fig_sankey.built
    /\ \E i \in DOMAIN df : df[i].Interactions = 0
    /\ \E i \in DOMAIN df : df[i].Interactions > 0

====
